---------------------------- MODULE Spec2Model ----------------------------
(***************************************************************************)
(* A model of ResourcePolicyAuditor                                        *)
(* (security_monkey/auditors/resource_policy_auditor.py).                  *)
(*                                                                         *)
(* One behaviour audits one item: the driver calls each of the five check  *)
(* methods at most once, in any order; every check starts by calling       *)
(* load_policies.  The Finding sink is the bag `findings`: every record    *)
(* call adds one element.                                                  *)
(*                                                                         *)
(* The collaborators the auditor calls but does not define (dpath, the     *)
(* policyuniverse Policy / Statement / ARN classes, Auditor.inspect_entity *)
(* and the Auditor record methods) are modelled by their contracts.        *)
(***************************************************************************)
EXTENDS Naturals, Sequences, FiniteSets, Bags

VARIABLES
    policy_keys,   \* self.policy_keys: the configured extraction paths
    config,        \* item.config, as what dpath.util.values yields per path
    registry,      \* the answers of inspect_entity(entity, item)
    findings,      \* bag of Findings recorded through the record methods
    status         \* per check: "idle", "done" or "error" (exception raised)

vars == <<policy_keys, config, registry, findings, status>>

-----------------------------------------------------------------------------
(* Bounds of the model *)

\* Policy documents at the default path of an audited item.
MaxPolicies == 2
\* Entries of the sequence located at a path, those of its nested sequences
\* counted one by one.
MaxEntries == 2

-----------------------------------------------------------------------------
(* Values *)

Wildcard == "*"
RoleArn == "arn:aws:iam::111111111111:role/app"
RootArn == "arn:aws:iam::111111111111:root"
ServiceName == "lambda.amazonaws.com"

Values == {Wildcard, RoleArn, RootArn, ServiceName}
Tags == {"FRIENDLY", "THIRDPARTY", "UNKNOWN"}
Effects == {"Allow", "Deny"}
GetObject == "s3:GetObject"
PutObject == "s3:PutObject"

\* The (category, value) pairs that whos_allowed() yields in the model:
\* principals of every kind of value, and values found in conditions.
Whos ==
    [category : {"principal"}, value : Values]
        \cup [category : {"arn"}, value : {Wildcard, RootArn, ServiceName}]
        \cup {[category |-> "account", value |-> RootArn]}

\* Entity(category='principal', value='*')
Entity(category, value) == [category |-> category, value |-> value]

\* Entity.from_tuple(who): an Entity with the pair's category and value.
from_tuple(who) == Entity(who.category, who.value)

WildcardPrincipal == Entity("principal", Wildcard)

ItemId == "item-1"

\* policyuniverse ARN(value): service is set for an AWS service name, root for
\* the root identity of an account; a service name is no ARN and has no root.
ARN(value) ==
    [service |-> value = ServiceName,
     root    |-> value = RootArn]

\* A statement of a parsed policy: effect, whos_allowed(), actions, and whether
\* it carries a condition that disqualifies internet access.
Stmt(effect, whos, actions, condition) ==
    [effect |-> effect, whos |-> whos, actions |-> actions,
     condition |-> condition]

whos_allowed(statement) == statement.whos

-----------------------------------------------------------------------------
(* Configuration values.  Every value is a tagged record so that values of  *)
(* different Python types can be compared.                                  *)

None == [kind |-> "none", Statement |-> <<>>, items |-> <<>>]
EmptyDict == [kind |-> "emptydict", Statement |-> <<>>, items |-> <<>>]
Dict(statements) == [kind |-> "dict", Statement |-> statements, items |-> <<>>]
List(items) == [kind |-> "list", Statement |-> <<>>, items |-> items]
PathNotFound == [kind |-> "notfound", Statement |-> <<>>, items |-> <<>>]

\* Python truthiness: `not p` holds for None, {} and [].
Falsy(p) ==
    \/ p.kind = "none"
    \/ p.kind = "emptydict"
    \/ p.kind = "list" /\ p.items = <<>>

\* isinstance(p, list)
IsList(p) == p.kind = "list"

\* Policy(doc) raises for a document that is no mapping (Policy(None)).
PolicyRaises(doc) == doc.kind \notin {"dict", "emptydict"}

\* Policy(doc): the parsed document, its statements in order.
Policy(doc) == [statements |-> doc.Statement]

\* dpath.util.values(item.config, key, separator='$')
dpath_values(key) == config[key]


-----------------------------------------------------------------------------
(* load_policies *)

\* The outcome of a call: the list built, or an exception that propagates.
Returned(policies) == [err |-> FALSE, policies |-> policies]
Raised == [err |-> TRUE, policies |-> <<>>]

\* Statements run in sequence: an exception in the first skips the second.
Then(a, b) ==
    IF a.err \/ b.err THEN Raised ELSE Returned(a.policies \o b.policies)

\* [Policy(pp) for pp in p]: every element is wrapped, none is skipped.
RECURSIVE wrap_nested(_)
wrap_nested(p) ==
    IF p = <<>> THEN Returned(<<>>)
    ELSE IF PolicyRaises(Head(p)) THEN Raised
    ELSE Then(Returned(<<Policy(Head(p))>>), wrap_nested(Tail(p)))

\* The body of `for p in policy`, for one p.
load_entry(p) ==
    IF Falsy(p) THEN Returned(<<>>)
    ELSE IF IsList(p) THEN wrap_nested(p.items)
    ELSE IF PolicyRaises(p) THEN Raised
    ELSE Returned(<<Policy(p)>>)

\* for p in policy: ...
RECURSIVE load_entries(_)
load_entries(policy) ==
    IF policy = <<>> THEN Returned(<<>>)
    ELSE Then(load_entry(Head(policy)), load_entries(Tail(policy)))

\* load_key with the PathNotFound handler lost: the signal propagates.
load_key_uncaught(key) ==
    LET policy == dpath_values(key) IN
    IF policy.kind = "notfound" THEN Raised
    ELSE IF IsList(policy) THEN load_entries(policy.items)
    ELSE IF PolicyRaises(policy) THEN Raised
    ELSE Returned(<<Policy(policy)>>)

\* The try block for one key; PathNotFound is caught and the
\* loop goes on to the next key with the policies collected so far.
load_key(key) ==
    LET policy == dpath_values(key) IN
    IF policy.kind = "notfound" THEN Returned(<<>>)
    ELSE IF IsList(policy) THEN load_entries(policy.items)
    ELSE IF PolicyRaises(policy) THEN Raised
    ELSE Returned(<<Policy(policy)>>)

\* for key in self.policy_keys: ...
RECURSIVE load_keys(_)
load_keys(keys) ==
    IF keys = <<>> THEN Returned(<<>>)
    ELSE Then(load_key(Head(keys)), load_keys(Tail(keys)))

load_policies == load_keys(policy_keys)

-----------------------------------------------------------------------------
(* The collaborators of the checks *)

\* Statement-level verdict of the policy library: an Allow statement that
\* grants the wildcard principal with no disqualifying condition.
statement_internet_accessible(statement) ==
    /\ statement.effect = "Allow"
    /\ WildcardPrincipal \in whos_allowed(statement)
    /\ ~statement.condition

\* policy.is_internet_accessible()
is_internet_accessible(policy) ==
    \E si \in 1..Len(policy.statements) :
        statement_internet_accessible(policy.statements[si])

\* policy.internet_accessible_actions(): the actions of the statements that
\* are internet accessible, deduplicated.
internet_accessible_actions(policy) ==
    UNION {policy.statements[si].actions :
              si \in {i \in 1..Len(policy.statements) :
                         statement_internet_accessible(policy.statements[i])}}

\* self.inspect_entity(entity, item): the registry's classification set.
inspect_entity(entity) == registry[entity]

\* A recorded Finding.  list(actions) is kept as the set of its elements (the
\* order of a list made from a set is not significant).  policy and stmt name
\* the place of the record call in the loops: the index of the policy among
\* the loaded ones and of the statement in it (0 for a whole-policy Finding).
Finding(category, entity, actions, pi, si) ==
    [category |-> category, item |-> ItemId, entity |-> entity,
     actions |-> actions, policy |-> pi, stmt |-> si]

\* self.record_<category>(item, entity, actions): one more Finding in the sink.
record(category, entity, actions, pi, si) ==
    SetToBag({Finding(category, entity, actions, pi, si)})

\* A for loop over a collection S whose body records body[x] for x.
RECURSIVE ForEach(_, _)
ForEach(S, body) ==
    IF S = {} THEN EmptyBag
    ELSE LET x == CHOOSE y \in S : TRUE
         IN  body[x] (+) ForEach(S \ {x}, body)

Indices(seq) == 1..Len(seq)

-----------------------------------------------------------------------------
(* check_internet_accessible *)

\* internet_policy recording one Finding per internet-accessible statement.
internet_policy_per_statement(policy, pi) ==
    ForEach({si \in Indices(policy.statements) :
                statement_internet_accessible(policy.statements[si])},
            [si \in Indices(policy.statements) |->
                record("internet", Entity("principal", Wildcard),
                       policy.statements[si].actions, pi, 0)])

internet_policy(policy, pi) ==
    IF is_internet_accessible(policy)
    THEN LET entity == Entity("principal", Wildcard)
             actions == internet_accessible_actions(policy)
         IN  record("internet", entity, actions, pi, 0)
    ELSE EmptyBag

internet_accessible(policies) ==
    ForEach(Indices(policies),
            [pi \in Indices(policies) |-> internet_policy(policies[pi], pi)])

-----------------------------------------------------------------------------
(* check_friendly_cross_account *)

\* friendly_who passing over a statement that names no action.
friendly_who_with_actions(statement, pi, si, who) ==
    LET entity == from_tuple(who) IN
    IF "FRIENDLY" \in inspect_entity(entity) /\ statement.actions # {}
    THEN record("friendly", entity, statement.actions, pi, si)
    ELSE EmptyBag

friendly_who(statement, pi, si, who) ==
    LET entity == from_tuple(who) IN
    IF "FRIENDLY" \in inspect_entity(entity)
    THEN record("friendly", entity, statement.actions, pi, si)
    ELSE EmptyBag

\* friendly_statement without the test of the effect.
friendly_statement_any_effect(statement, pi, si) ==
    ForEach(whos_allowed(statement),
            [who \in whos_allowed(statement) |->
                friendly_who(statement, pi, si, who)])

friendly_statement(statement, pi, si) ==
    IF statement.effect # "Allow" THEN EmptyBag
    ELSE ForEach(whos_allowed(statement),
                 [who \in whos_allowed(statement) |->
                     friendly_who(statement, pi, si, who)])

friendly_policy(policy, pi) ==
    ForEach(Indices(policy.statements),
            [si \in Indices(policy.statements) |->
                friendly_statement(policy.statements[si], pi, si)])

friendly_cross_account(policies) ==
    ForEach(Indices(policies),
            [pi \in Indices(policies) |-> friendly_policy(policies[pi], pi)])

-----------------------------------------------------------------------------
(* check_thirdparty_cross_account *)

\* thirdparty_who looking for the tag of the friendly check.
thirdparty_who_friendly_tag(statement, pi, si, who) ==
    LET entity == from_tuple(who) IN
    IF "FRIENDLY" \in inspect_entity(entity)
    THEN record("thirdparty", entity, statement.actions, pi, si)
    ELSE EmptyBag

thirdparty_who(statement, pi, si, who) ==
    LET entity == from_tuple(who) IN
    IF "THIRDPARTY" \in inspect_entity(entity)
    THEN record("thirdparty", entity, statement.actions, pi, si)
    ELSE EmptyBag

thirdparty_statement(statement, pi, si) ==
    IF statement.effect # "Allow" THEN EmptyBag
    ELSE ForEach(whos_allowed(statement),
                 [who \in whos_allowed(statement) |->
                     thirdparty_who(statement, pi, si, who)])

thirdparty_policy(policy, pi) ==
    ForEach(Indices(policy.statements),
            [si \in Indices(policy.statements) |->
                thirdparty_statement(policy.statements[si], pi, si)])

thirdparty_cross_account(policies) ==
    ForEach(Indices(policies),
            [pi \in Indices(policies) |-> thirdparty_policy(policies[pi], pi)])

-----------------------------------------------------------------------------
(* check_unknown_cross_account *)

\* unknown_who without the exclusion of service principals.
unknown_who_with_services(statement, pi, si, who) ==
    IF who.value = "*" /\ who.category = "principal" THEN EmptyBag
    ELSE LET entity == from_tuple(who) IN
         IF "UNKNOWN" \in inspect_entity(entity)
         THEN record("unknown", entity, statement.actions, pi, si)
         ELSE EmptyBag

\* unknown_who without the exclusion of the wildcard principal.
unknown_who_with_wildcard(statement, pi, si, who) ==
    IF who.category = "principal" /\ ARN(who.value).service THEN EmptyBag
    ELSE LET entity == from_tuple(who) IN
         IF "UNKNOWN" \in inspect_entity(entity)
         THEN record("unknown", entity, statement.actions, pi, si)
         ELSE EmptyBag

unknown_who(statement, pi, si, who) ==
    IF who.value = "*" /\ who.category = "principal" THEN EmptyBag
    \* Ignore Service Principals
    ELSE IF who.category = "principal" /\ ARN(who.value).service THEN EmptyBag
    ELSE LET entity == from_tuple(who) IN
         IF "UNKNOWN" \in inspect_entity(entity)
         THEN record("unknown", entity, statement.actions, pi, si)
         ELSE EmptyBag

unknown_statement(statement, pi, si) ==
    IF statement.effect # "Allow" THEN EmptyBag
    ELSE ForEach(whos_allowed(statement),
                 [who \in whos_allowed(statement) |->
                     unknown_who(statement, pi, si, who)])

\* unknown_policy without the skip of internet-accessible policies.
unknown_policy_no_skip(policy, pi) ==
    ForEach(Indices(policy.statements),
            [si \in Indices(policy.statements) |->
                unknown_statement(policy.statements[si], pi, si)])

unknown_policy(policy, pi) ==
    IF is_internet_accessible(policy) THEN EmptyBag
    ELSE ForEach(Indices(policy.statements),
                 [si \in Indices(policy.statements) |->
                     unknown_statement(policy.statements[si], pi, si)])

unknown_cross_account(policies) ==
    ForEach(Indices(policies),
            [pi \in Indices(policies) |-> unknown_policy(policies[pi], pi)])

-----------------------------------------------------------------------------
(* check_root_cross_account *)

\* root_who without the test of the ARN's root flag.
root_who_any_arn(statement, pi, si, who) ==
    IF who.category \notin {"arn", "principal"} THEN EmptyBag
    ELSE IF who.value = "*" THEN EmptyBag
    ELSE LET entity == from_tuple(who)
         IN  IF (inspect_entity(entity)
                    \cap {"FRIENDLY", "THIRDPARTY", "UNKNOWN"}) # {}
             THEN record("root-cross-account", entity, statement.actions, pi, si)
             ELSE EmptyBag

root_who(statement, pi, si, who) ==
    IF who.category \notin {"arn", "principal"} THEN EmptyBag
    ELSE IF who.value = "*" THEN EmptyBag
    ELSE LET arn == ARN(who.value)
             entity == from_tuple(who)
         IN  IF arn.root /\ (inspect_entity(entity)
                               \cap {"FRIENDLY", "THIRDPARTY", "UNKNOWN"}) # {}
             THEN record("root-cross-account", entity, statement.actions, pi, si)
             ELSE EmptyBag

root_statement(statement, pi, si) ==
    IF statement.effect # "Allow" THEN EmptyBag
    ELSE ForEach(whos_allowed(statement),
                 [who \in whos_allowed(statement) |->
                     root_who(statement, pi, si, who)])

root_policy(policy, pi) ==
    ForEach(Indices(policy.statements),
            [si \in Indices(policy.statements) |->
                root_statement(policy.statements[si], pi, si)])

root_cross_account(policies) ==
    ForEach(Indices(policies),
            [pi \in Indices(policies) |-> root_policy(policies[pi], pi)])

-----------------------------------------------------------------------------
(* The audited items *)

Keys == {"Policy", "Aliases"}
Checks == {"internet", "friendly", "thirdparty", "unknown", "root"}

\* The policy documents of an item whose policies concern the entity e:
\* a grant to e; a denial to e followed by a grant, to e and the wildcard
\* principal, that names no action and carries a disqualifying condition; an
\* unconditioned grant to e and the wildcard principal followed by a grant
\* to e; a denial to e; an unconditioned grant to the wildcard principal that
\* names no action.
DocsFor(e) ==
    {Dict(<<Stmt("Allow", {e}, {GetObject}, FALSE)>>),
     Dict(<<Stmt("Deny", {e}, {GetObject}, FALSE),
            Stmt("Allow", {e, WildcardPrincipal}, {}, TRUE)>>),
     Dict(<<Stmt("Allow", {e, WildcardPrincipal}, {PutObject}, FALSE),
            Stmt("Allow", {e}, {GetObject}, FALSE)>>),
     Dict(<<Stmt("Deny", {e}, {GetObject}, FALSE)>>),
     Dict(<<Stmt("Allow", {WildcardPrincipal}, {}, FALSE)>>)}

SeqsUpTo(S, n) == UNION {[1..k -> S] : k \in 0..n}

\* An item with policy documents at the default path, and a registry that
\* answers t for the entity e and UNKNOWN for every other one.
InitChecks ==
    \E e \in Whos, t \in SUBSET Tags :
      \E docs \in SeqsUpTo(DocsFor(e), MaxPolicies) :
            /\ policy_keys = <<"Policy">>
            /\ config = [k \in Keys |->
                            IF k = "Policy" THEN List(docs)
                            ELSE PathNotFound]
            /\ registry = [x \in Whos |-> IF x = e THEN t ELSE {"UNKNOWN"}]

\* Two policy documents for the items whose configuration is varied: the
\* first is internet accessible, the second grants a root identity.
DocA == Dict(<<Stmt("Allow", {WildcardPrincipal}, {GetObject}, FALSE)>>)
DocB == Dict(<<Stmt("Allow", {Entity("arn", RootArn)}, {PutObject}, FALSE)>>)

Leaves == {None, EmptyDict, DocA, DocB}

\* An entry of a located sequence that counts for k entries: a leaf or an
\* empty sequence (k = 1), or a nested sequence of k leaves.
EntriesOfSize(k) ==
    (IF k = 1 THEN Leaves \cup {List(<<>>)} ELSE {})
        \cup {List(s) : s \in [1..k -> Leaves]}

\* The sequences of entries that count for at most n entries.
RECURSIVE EntrySeqs(_)
EntrySeqs(n) ==
    {<<>>} \cup UNION {{<<e>> \o rest : e \in EntriesOfSize(k),
                                        rest \in EntrySeqs(n - k)} :
                          k \in 1..n}

\* What dpath.util.values yields at a path: the sequence of the values
\* found there, or the not-found signal.
Located == {PathNotFound} \cup {List(s) : s \in EntrySeqs(MaxEntries)}

\* An item whose configuration tree is varied, audited by a variant with one
\* or two extraction paths; the registry answers every tag for every entity.
InitLoad ==
    /\ policy_keys \in {<<"Policy">>, <<"Policy", "Aliases">>,
                        <<"Aliases", "Policy">>}
    /\ \E first \in Located, second \in {PathNotFound, List(<<DocB>>)} :
          config = [k \in Keys |-> IF k = "Policy" THEN first ELSE second]
    /\ registry = [x \in Whos |-> Tags]

InitRun ==
    /\ findings = EmptyBag
    /\ status = [c \in Checks |-> "idle"]

Init == InitChecks /\ InitRun

InitAudit == InitLoad /\ InitRun

-----------------------------------------------------------------------------
(* The operations *)

\* The end of a check whose loops recorded the Findings `recorded`; an
\* exception of load_policies propagates before anything is recorded.
Finish(check, recorded) ==
    /\ IF load_policies.err
       THEN /\ status' = [status EXCEPT ![check] = "error"]
            /\ findings' = findings
       ELSE /\ status' = [status EXCEPT ![check] = "done"]
            /\ findings' = findings (+) recorded
    /\ UNCHANGED <<policy_keys, config, registry>>

check_internet_accessible ==
    /\ status["internet"] = "idle"
    /\ Finish("internet", internet_accessible(load_policies.policies))

check_friendly_cross_account ==
    /\ status["friendly"] = "idle"
    /\ Finish("friendly", friendly_cross_account(load_policies.policies))

check_thirdparty_cross_account ==
    /\ status["thirdparty"] = "idle"
    /\ Finish("thirdparty", thirdparty_cross_account(load_policies.policies))

check_unknown_cross_account ==
    /\ status["unknown"] = "idle"
    /\ Finish("unknown", unknown_cross_account(load_policies.policies))

check_root_cross_account ==
    /\ status["root"] = "idle"
    /\ Finish("root", root_cross_account(load_policies.policies))

Next ==
    \/ check_internet_accessible
    \/ check_friendly_cross_account
    \/ check_thirdparty_cross_account
    \/ check_unknown_cross_account
    \/ check_root_cross_account

Spec == Init /\ [][Next]_vars

SpecLoad == InitAudit /\ [][Next]_vars

-----------------------------------------------------------------------------
(* Vocabulary of the properties *)

\* The policies the checks iterate over (load_policies did not raise).
Policies == load_policies.policies

\* Every (policy, statement, who) the loops of a check can visit, with the
\* statement visited and the verdict of its policy.
Grants ==
    LET P == Policies IN
    UNION {UNION {{[pi |-> pi, si |-> si, who |-> who,
                    stmt |-> P[pi].statements[si],
                    internet |-> is_internet_accessible(P[pi])] :
                      who \in whos_allowed(P[pi].statements[si])} :
                  si \in Indices(P[pi].statements)} :
           pi \in Indices(P)}

AllowGrants == {g \in Grants : g.stmt.effect = "Allow"}

Recorded == BagToSet(findings)
FindingsOf(category) == {f \in Recorded : f.category = category}

\* The Finding a check of the given category records for the grant g.
FindingFor(category, g) ==
    Finding(category, g.who, g.stmt.actions, g.pi, g.si)

Times(f) == CopiesIn(f, findings)

Done(check) == status[check] = "done"
AllDone == \A c \in Checks : Done(c)

CrossAccount == {"friendly", "thirdparty", "unknown", "root-cross-account"}

-----------------------------------------------------------------------------
(* C1 *)

\* C1: no check records a Finding for a Deny statement: no Finding comes from
\* the place of a Deny statement, the actions of an internet Finding are
\* actions of Allow statements of its policy, and a policy made of Deny
\* statements only has no Finding at all.
C1_DenyNeverReported ==
    LET P == Policies IN
    /\ \A f \in Recorded :
          /\ f.policy \in Indices(P)
          /\ f.stmt # 0 =>
                /\ f.stmt \in Indices(P[f.policy].statements)
                /\ P[f.policy].statements[f.stmt].effect = "Allow"
          /\ f.stmt = 0 =>
                /\ f.category = "internet"
                /\ f.actions \subseteq
                      UNION {P[f.policy].statements[si].actions :
                                si \in {i \in Indices(P[f.policy].statements) :
                                           P[f.policy].statements[i].effect
                                               = "Allow"}}
    /\ \A pi \in Indices(P) :
          (\A si \in Indices(P[pi].statements) :
               P[pi].statements[si].effect = "Deny")
             => ~\E f \in Recorded : f.policy = pi

\* A policy with a Deny statement for a root identity with every tag, next
\* to an Allow statement that is reported, all five checks having run.
C1_Witness ==
    /\ AllDone
    /\ \E g \in Grants :
          /\ g.stmt.effect = "Deny"
          /\ registry[g.who] = Tags
          /\ ARN(g.who.value).root
          /\ \E f \in Recorded : f.policy = g.pi /\ f.entity = g.who

-----------------------------------------------------------------------------
(* C2 *)

\* The claimed condition for an unknown Finding: an Allow statement granting
\* an entity tagged UNKNOWN that is neither the wildcard principal nor a
\* service principal.
UnknownClaimed(g) ==
    /\ g.stmt.effect = "Allow"
    /\ g.who # WildcardPrincipal
    /\ ~(g.who.category = "principal" /\ ARN(g.who.value).service)
    /\ "UNKNOWN" \in registry[g.who]

\* C2 as stated: once check_unknown_cross_account has run, every claimed
\* grant has its unknown Finding, in whatever policy it stands.
C2_Original ==
    Done("unknown") =>
        \A g \in Grants :
            UnknownClaimed(g) => Times(FindingFor("unknown", g)) >= 1

\* C2, amended: check_unknown_cross_account records exactly one unknown
\* Finding for each claimed grant of a policy that is not internet accessible,
\* and nothing else; a policy that is internet accessible is skipped as a
\* whole.
C2_UnknownExceptInternetPolicies ==
    /\ ~Done("unknown") => FindingsOf("unknown") = {}
    /\ Done("unknown") =>
          LET G == Grants IN
          /\ \A g \in G :
                Times(FindingFor("unknown", g)) =
                    IF UnknownClaimed(g) /\ ~g.internet THEN 1 ELSE 0
          /\ \A f \in FindingsOf("unknown") :
                \E g \in G : f = FindingFor("unknown", g)

\* The unknown check has run over two policies, one internet accessible and
\* skipped although it grants an UNKNOWN entity, one reported.
C2_Witness ==
    /\ Done("unknown")
    /\ \E g, h \in Grants :
          /\ UnknownClaimed(g) /\ g.internet
          /\ Times(FindingFor("unknown", g)) = 0
          /\ UnknownClaimed(h) /\ ~h.internet
          /\ Times(FindingFor("unknown", h)) = 1

-----------------------------------------------------------------------------
(* C3 *)

\* C3 as stated: no unknown or root Finding for an entity whose value the
\* ARN parser reports as a service, whatever its category.
C3_Original ==
    \A f \in FindingsOf("unknown") \cup FindingsOf("root-cross-account") :
        ~ARN(f.entity.value).service

\* C3, amended: check_unknown_cross_account records no Finding for an entity
\* of category principal whose value names a service, and
\* check_root_cross_account records none for any entity whose value names a
\* service; an entity of another category whose value names a service is
\* reported as unknown when the registry tags it UNKNOWN.
C3_ServicePrincipalsIgnored ==
    /\ \A f \in FindingsOf("unknown") :
          ~(f.entity.category = "principal" /\ ARN(f.entity.value).service)
    /\ \A f \in FindingsOf("root-cross-account") :
          ~ARN(f.entity.value).service
    /\ Done("unknown") =>
          \A g \in Grants :
              (UnknownClaimed(g) /\ ~g.internet /\ ARN(g.who.value).service)
                 => Times(FindingFor("unknown", g)) = 1

\* Both checks have run over an Allow statement, in a policy that is not
\* internet accessible, granting a service principal tagged UNKNOWN.
C3_Witness ==
    /\ Done("unknown") /\ Done("root")
    /\ \E g \in AllowGrants :
          /\ ~g.internet
          /\ g.who = Entity("principal", ServiceName)
          /\ "UNKNOWN" \in registry[g.who]
          /\ Times(FindingFor("unknown", g)) = 0
          /\ Times(FindingFor("root-cross-account", g)) = 0

-----------------------------------------------------------------------------
(* C4 *)

\* The grants check_root_cross_account reports: an Allow statement granting an
\* entity of category arn or principal, other than *, whose ARN is a root
\* identity and whose classification meets {FRIENDLY, THIRDPARTY, UNKNOWN}.
RootQualifies(g) ==
    /\ g.stmt.effect = "Allow"
    /\ g.who.category \in {"arn", "principal"}
    /\ g.who.value # Wildcard
    /\ ARN(g.who.value).root
    /\ registry[g.who] \cap Tags # {}

\* C4: check_root_cross_account records exactly one root-cross-account Finding
\* for each qualifying (statement, entity) pair and none for any other pair,
\* whatever the other checks have recorded.
C4_RootExactlyOnce ==
    /\ ~Done("root") => FindingsOf("root-cross-account") = {}
    /\ Done("root") =>
          LET G == Grants IN
          /\ \A g \in G :
                Times(FindingFor("root-cross-account", g)) =
                    IF RootQualifies(g) THEN 1 ELSE 0
          /\ \A f \in FindingsOf("root-cross-account") :
                \E g \in G : f = FindingFor("root-cross-account", g)

\* A root identity tagged THIRDPARTY is reported once by the root check and
\* once by the third-party check, for the same statement.
C4_Witness ==
    /\ Done("root") /\ Done("thirdparty")
    /\ \E g \in Grants :
          /\ RootQualifies(g)
          /\ Times(FindingFor("root-cross-account", g)) = 1
          /\ Times(FindingFor("thirdparty", g)) = 1

-----------------------------------------------------------------------------
(* C5 *)

InternetFindingFor(policy, pi) ==
    Finding("internet", WildcardPrincipal,
            internet_accessible_actions(policy), pi, 0)

\* C5: check_internet_accessible records exactly one internet Finding for
\* each policy whose verdict is true, for the entity (principal, * ) and with
\* the policy's internet-exposed actions, and none for any other policy.
C5_InternetOncePerPolicy ==
    /\ ~Done("internet") => FindingsOf("internet") = {}
    /\ Done("internet") =>
          LET P == Policies IN
          /\ \A pi \in Indices(P) :
                Times(InternetFindingFor(P[pi], pi)) =
                    IF is_internet_accessible(P[pi]) THEN 1 ELSE 0
          /\ \A f \in FindingsOf("internet") :
                /\ f.policy \in Indices(P)
                /\ f = InternetFindingFor(P[f.policy], f.policy)
                /\ f.entity = [category |-> "principal", value |-> "*"]

\* The internet check has run over a policy with two internet-accessible
\* statements of different actions: one Finding, with both actions.
C5_Witness ==
    /\ Done("internet")
    /\ \E pi \in Indices(Policies) :
          /\ Cardinality({si \in Indices(Policies[pi].statements) :
                            statement_internet_accessible(
                                Policies[pi].statements[si])}) = 2
          /\ internet_accessible_actions(Policies[pi]) = {GetObject, PutObject}
          /\ Times(InternetFindingFor(Policies[pi], pi)) = 1
          /\ Cardinality({f \in FindingsOf("internet") : f.policy = pi}) = 1

-----------------------------------------------------------------------------
(* C6 *)

\* C6: check_friendly_cross_account (check_thirdparty_cross_account) records
\* one friendly (thirdparty) Finding, with the statement's actions, for an
\* (Allow statement, entity) pair exactly when the registry's set for the
\* entity holds FRIENDLY (THIRDPARTY); an entity whose set is empty has no
\* friendly, thirdparty, unknown or root Finding.
C6_FriendlyThirdpartyIff ==
    LET G == AllowGrants IN
    /\ ~Done("friendly") => FindingsOf("friendly") = {}
    /\ ~Done("thirdparty") => FindingsOf("thirdparty") = {}
    /\ Done("friendly") =>
          /\ \A g \in G :
                Times(FindingFor("friendly", g)) =
                    IF "FRIENDLY" \in registry[g.who] THEN 1 ELSE 0
          /\ \A f \in FindingsOf("friendly") :
                \E g \in G : f = FindingFor("friendly", g)
    /\ Done("thirdparty") =>
          /\ \A g \in G :
                Times(FindingFor("thirdparty", g)) =
                    IF "THIRDPARTY" \in registry[g.who] THEN 1 ELSE 0
          /\ \A f \in FindingsOf("thirdparty") :
                \E g \in G : f = FindingFor("thirdparty", g)
    /\ \A f \in Recorded :
          f.category \in CrossAccount => registry[f.entity] # {}

\* Both checks have run over an Allow statement granting an entity tagged
\* FRIENDLY only: a friendly Finding and no thirdparty one.
C6_Witness ==
    /\ Done("friendly") /\ Done("thirdparty")
    /\ \E g \in AllowGrants :
          /\ registry[g.who] = {"FRIENDLY"}
          /\ g.stmt.actions = {GetObject}
          /\ Times(FindingFor("friendly", g)) = 1
          /\ Times(FindingFor("thirdparty", g)) = 0

-----------------------------------------------------------------------------
(* C7 *)

\* No configured path has a value: the lookup signals not-found or yields
\* nothing.
NoConfigValue ==
    \A i \in Indices(policy_keys) :
        \/ dpath_values(policy_keys[i]).kind = "notfound"
        \/ dpath_values(policy_keys[i]) = List(<<>>)

Remove(seq, i) == SubSeq(seq, 1, i - 1) \o SubSeq(seq, i + 1, Len(seq))

\* C7: for an item with no value at any configured path load_policies returns
\* the empty sequence without raising, and no check fails or records a
\* Finding; and a path that is not found changes nothing to what the other
\* paths contribute.
C7_NoPolicyNoFinding ==
    /\ NoConfigValue =>
          /\ load_policies = Returned(<<>>)
          /\ findings = EmptyBag
          /\ \A c \in Checks : status[c] # "error"
    /\ \A i \in Indices(policy_keys) :
          dpath_values(policy_keys[i]).kind = "notfound"
             => load_keys(policy_keys) = load_keys(Remove(policy_keys, i))

\* The five checks have run over an item none of whose two configured paths
\* is found.
C7_Witness ==
    /\ AllDone
    /\ Len(policy_keys) = 2
    /\ \A i \in Indices(policy_keys) :
          dpath_values(policy_keys[i]).kind = "notfound"
    /\ findings = EmptyBag

-----------------------------------------------------------------------------
(* C8 *)

\* C8 as stated: every recorded Finding references the item, one entity, and
\* carries a non-empty action list.
C8_Original ==
    \A f \in Recorded :
        /\ f.item = ItemId
        /\ f.entity \in Whos
        /\ f.actions # {}

\* C8, amended: every recorded Finding references the item and one entity and
\* carries the actions of its statement (of its policy's internet exposure
\* for an internet Finding), which are empty when the statement names no
\* action: an Allow statement without actions is reported like any other.
C8_ActionsOfTheStatement ==
    LET P == Policies IN
    /\ \A f \in Recorded :
          /\ f.item = ItemId
          /\ f.entity \in Whos
          /\ f.policy \in Indices(P)
          /\ f.stmt # 0 =>
                /\ f.stmt \in Indices(P[f.policy].statements)
                /\ f.actions = P[f.policy].statements[f.stmt].actions
          /\ f.stmt = 0 =>
                f.actions = internet_accessible_actions(P[f.policy])
    /\ Done("friendly") =>
          \A g \in AllowGrants :
              "FRIENDLY" \in registry[g.who]
                 => Times(FindingFor("friendly", g)) = 1

\* The friendly check has run over an Allow statement that names no action
\* and grants an entity tagged FRIENDLY: a Finding with no action.
C8_Witness ==
    /\ Done("friendly")
    /\ \E g \in AllowGrants :
          /\ g.stmt.actions = {}
          /\ "FRIENDLY" \in registry[g.who]
          /\ FindingFor("friendly", g).actions = {}
          /\ Times(FindingFor("friendly", g)) = 1

-----------------------------------------------------------------------------
(* C9 *)

\* C9 as stated: the wildcard principal is reported by
\* check_internet_accessible only: no friendly, thirdparty, unknown or root
\* Finding has the entity (principal, * ), whatever the registry answers.
C9_Original ==
    \A f \in Recorded :
        f.entity = WildcardPrincipal => f.category = "internet"

\* C9, amended: no unknown or root Finding has the entity (principal, * ),
\* whatever the registry answers; a friendly (thirdparty) Finding has it only
\* when the registry tags the wildcard principal FRIENDLY (THIRDPARTY).
C9_WildcardByRegistryOnly ==
    \A f \in Recorded :
        f.entity = WildcardPrincipal =>
            /\ f.category \in {"internet", "friendly", "thirdparty"}
            /\ f.category = "friendly"
                  => "FRIENDLY" \in registry[WildcardPrincipal]
            /\ f.category = "thirdparty"
                  => "THIRDPARTY" \in registry[WildcardPrincipal]

\* All checks have run over an Allow statement, in a policy that is not
\* internet accessible, granting the wildcard principal tagged with every
\* tag: a friendly Finding for it, no unknown or root one.
C9_Witness ==
    /\ AllDone
    /\ registry[WildcardPrincipal] = Tags
    /\ \E g \in AllowGrants :
          /\ g.who = WildcardPrincipal
          /\ ~g.internet
          /\ Times(FindingFor("friendly", g)) = 1
          /\ Times(FindingFor("unknown", g)) = 0
          /\ Times(FindingFor("root-cross-account", g)) = 0

-----------------------------------------------------------------------------
(* C10 *)

\* The Policies the claim names for an entry: one per non-empty document,
\* those of a nested sequence included, null and empty entries skipped.
ClaimedEntry(p) ==
    IF Falsy(p) THEN <<>>
    ELSE IF IsList(p)
    THEN LET kept == SelectSeq(p.items, LAMBDA pp : ~Falsy(pp))
         IN  [i \in Indices(kept) |-> Policy(kept[i])]
    ELSE <<Policy(p)>>

RECURSIVE ClaimedEntries(_)
ClaimedEntries(policy) ==
    IF policy = <<>> THEN <<>>
    ELSE ClaimedEntry(Head(policy)) \o ClaimedEntries(Tail(policy))

RECURSIVE ClaimedKeys(_)
ClaimedKeys(keys) ==
    IF keys = <<>> THEN <<>>
    ELSE (IF dpath_values(Head(keys)).kind = "notfound" THEN <<>>
          ELSE ClaimedEntries(dpath_values(Head(keys)).items))
             \o ClaimedKeys(Tail(keys))

\* C10: load_policies returns, without an error, exactly one Policy for each
\* non-empty policy document at the configured paths, in path and discovery
\* order, null and empty entries being skipped in the located sequence and in
\* a nested one.
C10_OnePolicyPerDocument ==
    (\E c \in Checks : status[c] # "idle") =>
        /\ load_policies = Returned(ClaimedKeys(policy_keys))
        /\ \A c \in Checks : status[c] # "error"

=============================================================================
